---- MODULE Spec2Model ----
(***************************************************************************)
(* Model of src/dijkstra.py: class Dijkstra.                               *)
(*                                                                         *)
(* __init__ stores the graph and the start node and runs                   *)
(* _calculate_distances (a heapq driven relaxation loop);                  *)
(* get_shortest_path walks parents_map back from the end node.             *)
(*                                                                         *)
(* The while loop, the for loop over the neighbours and the backtracking   *)
(* loop are modelled one iteration per step.  A dict is a function, the    *)
(* heap is a bag of (distance, node) tuples popped in tuple order, and     *)
(* float('infinity') is the value Infinity, compared as Python compares    *)
(* it.  A failed dict lookup is the KeyError it raises.                    *)
(***************************************************************************)
EXTENDS Integers, Sequences, FiniteSets, Bags

\* ------------------------------------------------------------------ bounds

\* Largest edge weight of the enumerated graphs (weights are 0..MaxWeight).
MaxWeight == 1

\* Largest number of edges of the enumerated graphs.
MaxEdges == 3

\* ------------------------------------------------------------------ inputs

\* Node identifiers, in the order Python compares the strings.
NodeOrder == <<"A", "B", "C", "D", "E", "F">>

\* Position of a node identifier in the string order (the second component of
\* the heap tuples is compared when two distances are equal).
Ord(n) == CHOOSE i \in 1..Len(NodeOrder) : NodeOrder[i] = n

\* The identifiers the enumerated graphs are built from.
SmallNodes == {"A", "B", "C"}

\* The sample graph literal.
SampleGraph ==
    [u \in {"A", "B", "C", "D", "E", "F"} |->
        CASE u = "A" -> [v \in {"B", "C", "D", "F"} |->
                            CASE v = "B" -> 4 [] v = "C" -> 7
                              [] v = "D" -> 2 [] v = "F" -> 9]
          [] u = "B" -> [v \in {"A", "D", "C", "E"} |->
                            CASE v = "A" -> 5 [] v = "D" -> 3
                              [] v = "C" -> 1 [] v = "E" -> 4]
          [] u = "C" -> [v \in {"B", "A", "D", "E", "F"} |->
                            CASE v = "B" -> 9 [] v = "A" -> 15
                              [] v = "D" -> 4 [] v = "E" -> 2 [] v = "F" -> 6]
          [] u = "D" -> [v \in {"A", "B", "C", "E"} |->
                            CASE v = "A" -> 6 [] v = "B" -> 6
                              [] v = "C" -> 1 [] v = "E" -> 8]
          [] u = "E" -> [v \in {"D", "C", "F"} |->
                            CASE v = "D" -> 3 [] v = "C" -> 1 [] v = "F" -> 1]
          [] u = "F" -> [v \in {"C", "E"} |->
                            CASE v = "C" -> 8 [] v = "E" -> 5]]

\* A graph argument: a dict of dicts.  E is the set of edges, w their weights,
\* X the keys that are present beyond the tails of the edges.  A head of an
\* edge that is neither a tail nor in X is a neighbour that is not a key.
MakeGraph(E, w, X) ==
    [u \in {e[1] : e \in E} \cup X |->
        [v \in {e[2] : e \in {f \in E : f[1] = u}} |-> w[<<u, v>>]]]

\* Every graph over SmallNodes with at most MaxEdges edges (self loops and
\* zero weights included) and non-negative weights up to MaxWeight.
SmallGraphs ==
    UNION {UNION {{MakeGraph(E, w, X) : X \in SUBSET SmallNodes} :
                    w \in [E -> 0..MaxWeight]} :
             E \in {F \in SUBSET (SmallNodes \X SmallNodes) :
                        Cardinality(F) <= MaxEdges}}

\* --------------------------------------------------------------- the state

VARIABLES
    graph,            \* self.graph
    start_node,       \* self.start_node
    distances,        \* self.distances
    parents_map,      \* self.parents_map
    priority_queue,   \* the local heap of _calculate_distances
    current_distance, \* the popped distance
    current_node,     \* the popped node
    todo,             \* neighbours the for loop has still to visit
    expanded,         \* nodes whose neighbours the for loop has gone through
    end_node,         \* argument of get_shortest_path
    walk_node,        \* current_node of get_shortest_path
    path,             \* path of get_shortest_path, the returned list at the end
    exc,              \* the exception a call ended with, "none" if it did not
    errors,           \* end_node -> the exception get_shortest_path raised for it
    pc                \* where the program is

vars == <<graph, start_node, distances, parents_map, priority_queue,
          current_distance, current_node, todo, expanded, end_node,
          walk_node, path, exc, errors, pc>>

calcVars == <<distances, parents_map, priority_queue, current_distance,
              current_node, todo, expanded>>

walkVars == <<end_node, walk_node, path, errors>>

\* float('infinity')
Infinity == -1

\* a < b on Python numbers, one of which may be float('infinity')
Less(a, b) == a # Infinity /\ (b = Infinity \/ a < b)

\* {} : the empty dict
EmptyDict == [n \in {} |-> n]

\* d[k] = v on a dict
DictSet(d, k, v) == [n \in DOMAIN d \cup {k} |-> IF n = k THEN v ELSE d[n]]

\* ------------------------------------------------------------------ heapq

\* Tuple order of the heap entries: by distance, then by node.
EntryLess(e, f) == e[1] < f[1] \/ (e[1] = f[1] /\ Ord(e[2]) < Ord(f[2]))

\* The entry heappop returns: the smallest tuple of the heap.
HeapMin(q) ==
    CHOOSE e \in BagToSet(q) : \A f \in BagToSet(q) : e = f \/ EntryLess(e, f)

\* Variant: the entry is read (priority_queue[0]) and left in the heap.
HeapPeeked(q) == q

\* The heap heappop leaves behind.
HeapPopped(q) == q (-) SetToBag({HeapMin(q)})

\* heappush
HeapPush(q, e) == q (+) SetToBag({e})

\* ------------------------------------------------- _calculate_distances

\* Variant: the staleness test left out.
NeverStale(d, u) == FALSE

\* Variant: the staleness test written with >=.
IsStaleOrEqual(d, u) == ~Less(d, distances[u])

\* current_distance > self.distances[current_node]
IsStale(d, u) == Less(distances[u], d)

\* Variant: self.graph.get(current_node, {}) never fails.
GraphLookupDefaults(u) == FALSE

\* self.graph[current_node] raises KeyError
GraphLookupFails(u) == u \notin DOMAIN graph

\* Variant: the weight alone, the popped distance not added.
CandidateWeightOnly(d, w) == w

\* distance = current_distance + weight
Candidate(d, w) == d + w

\* distance < self.distances[neighbour]
Improves(distance, v) == Less(distance, distances[v])

\* Variant: the start node is recorded as the parent.
ParentIsStart(u) == start_node

\* the node recorded in parents_map for a relaxed neighbour
Parent(u) == u

\* Lines 30-37: every graph key gets distance infinity, the start node 0, and
\* the heap starts with (0, start_node).  The assignment to
\* distances[start_node] adds the key when the start node is no graph key.
Calculate ==
    /\ pc = "calc"
    /\ distances' = DictSet([n \in DOMAIN graph |-> Infinity], start_node, 0)
    /\ priority_queue' = SetToBag({<<0, start_node>>})
    /\ pc' = "loop"
    /\ UNCHANGED <<graph, start_node, parents_map, current_distance,
                   current_node, todo, expanded, exc>>
    /\ UNCHANGED walkVars

\* Line 40: the heap is empty, _calculate_distances and __init__ return.
LoopExit ==
    /\ pc = "loop"
    /\ priority_queue = EmptyBag
    /\ pc' = "done"
    /\ UNCHANGED <<graph, start_node, exc>>
    /\ UNCHANGED calcVars
    /\ UNCHANGED walkVars

\* Lines 41-45: the popped entry is stale, continue.
PopStale ==
    /\ pc = "loop"
    /\ priority_queue # EmptyBag
    /\ LET e == HeapMin(priority_queue) IN
        /\ IsStale(e[1], e[2])
        /\ current_distance' = e[1]
        /\ current_node' = e[2]
    /\ priority_queue' = HeapPopped(priority_queue)
    /\ UNCHANGED <<graph, start_node, distances, parents_map, todo, expanded,
                   exc, pc>>
    /\ UNCHANGED walkVars

\* Lines 41-48: the popped node is no graph key, self.graph[current_node]
\* raises KeyError out of __init__.
PopMissing ==
    /\ pc = "loop"
    /\ priority_queue # EmptyBag
    /\ LET e == HeapMin(priority_queue) IN
        /\ ~IsStale(e[1], e[2])
        /\ GraphLookupFails(e[2])
        /\ current_distance' = e[1]
        /\ current_node' = e[2]
    /\ priority_queue' = HeapPopped(priority_queue)
    /\ exc' = "KeyError"
    /\ pc' = "raised"
    /\ UNCHANGED <<graph, start_node, distances, parents_map, todo, expanded>>
    /\ UNCHANGED walkVars

\* Lines 41-48: the popped entry is current, the for loop over its node's
\* neighbours starts.
PopExpand ==
    /\ pc = "loop"
    /\ priority_queue # EmptyBag
    /\ LET e == HeapMin(priority_queue) IN
        /\ ~IsStale(e[1], e[2])
        /\ ~GraphLookupFails(e[2])
        /\ current_distance' = e[1]
        /\ current_node' = e[2]
        \* the keys of the dict the lookup yields
        /\ todo' = IF e[2] \in DOMAIN graph THEN DOMAIN graph[e[2]] ELSE {}
        /\ expanded' = expanded \cup {e[2]}
    /\ priority_queue' = HeapPopped(priority_queue)
    /\ pc' = "for"
    /\ UNCHANGED <<graph, start_node, distances, parents_map, exc>>
    /\ UNCHANGED walkVars

\* Lines 48-55: the neighbour's distance improves.
RelaxImprove(v) ==
    /\ pc = "for"
    /\ v \in todo
    /\ v \in DOMAIN distances
    /\ LET distance == Candidate(current_distance, graph[current_node][v]) IN
        /\ Improves(distance, v)
        /\ parents_map' = DictSet(parents_map, v, Parent(current_node))
        /\ distances' = DictSet(distances, v, distance)
        /\ priority_queue' = HeapPush(priority_queue, <<distance, v>>)
    /\ todo' = todo \ {v}
    /\ UNCHANGED <<graph, start_node, current_distance, current_node,
                   expanded, exc, pc>>
    /\ UNCHANGED walkVars

\* Lines 48-52: the neighbour's distance does not improve.
RelaxSkip(v) ==
    /\ pc = "for"
    /\ v \in todo
    /\ v \in DOMAIN distances
    /\ ~Improves(Candidate(current_distance, graph[current_node][v]), v)
    /\ todo' = todo \ {v}
    /\ UNCHANGED <<graph, start_node, distances, parents_map, priority_queue,
                   current_distance, current_node, expanded, exc, pc>>
    /\ UNCHANGED walkVars

\* Lines 48-52: the neighbour is no graph key, self.distances[neighbour]
\* raises KeyError out of __init__.
RelaxMissing(v) ==
    /\ pc = "for"
    /\ v \in todo
    /\ v \notin DOMAIN distances
    /\ exc' = "KeyError"
    /\ pc' = "raised"
    /\ UNCHANGED <<graph, start_node>>
    /\ UNCHANGED calcVars
    /\ UNCHANGED walkVars

\* Line 48: the for loop has visited every neighbour, back to the while test.
ForExit ==
    /\ pc = "for"
    /\ todo = {}
    /\ pc' = "loop"
    /\ UNCHANGED <<graph, start_node, exc>>
    /\ UNCHANGED calcVars
    /\ UNCHANGED walkVars

\* One step of __init__ / _calculate_distances.
Construct ==
    \/ Calculate
    \/ LoopExit
    \/ PopStale
    \/ PopMissing
    \/ PopExpand
    \/ \E v \in todo : RelaxImprove(v)
    \/ \E v \in todo : RelaxSkip(v)
    \/ \E v \in todo : RelaxMissing(v)
    \/ ForExit

\* ---------------------------------------------------- get_shortest_path

\* Variant: path.reverse() left out.
NotReversed(p) == p

\* path.reverse()
Reversed(p) == [i \in 1..Len(p) |-> p[Len(p) + 1 - i]]

\* The destinations asked for: the graph keys and the small identifiers.
Destinations == DOMAIN graph \cup SmallNodes

\* Lines 64-65: a call on a constructed engine.
GetShortestPath(e) ==
    /\ pc \in {"done", "returned", "query_raised"}
    /\ end_node' = e
    /\ walk_node' = e
    /\ path' = <<e>>
    /\ exc' = "none"
    /\ pc' = "walk"
    /\ UNCHANGED <<graph, start_node, errors>>
    /\ UNCHANGED calcVars

\* Lines 68-70: one step back through parents_map.
WalkStep ==
    /\ pc = "walk"
    /\ walk_node # start_node
    /\ walk_node \in DOMAIN parents_map
    /\ walk_node' = parents_map[walk_node]
    /\ path' = Append(path, parents_map[walk_node])
    /\ UNCHANGED <<graph, start_node, end_node, errors, exc, pc>>
    /\ UNCHANGED calcVars

\* Lines 68-69: the node has no entry, self.parents_map[current_node] raises
\* KeyError.
WalkMissing ==
    /\ pc = "walk"
    /\ walk_node # start_node
    /\ walk_node \notin DOMAIN parents_map
    /\ exc' = "KeyError"
    /\ errors' = DictSet(errors, end_node, "KeyError")
    /\ pc' = "query_raised"
    /\ UNCHANGED <<graph, start_node, end_node, walk_node, path>>
    /\ UNCHANGED calcVars

\* Lines 68, 71-72: the start node is reached, the reversed path is returned.
WalkReturn ==
    /\ pc = "walk"
    /\ walk_node = start_node
    /\ path' = Reversed(path)
    /\ pc' = "returned"
    /\ UNCHANGED <<graph, start_node, end_node, walk_node, errors, exc>>
    /\ UNCHANGED calcVars

\* One step of a get_shortest_path call.
Query ==
    \/ \E e \in Destinations : GetShortestPath(e)
    \/ WalkStep
    \/ WalkMissing
    \/ WalkReturn

\* ------------------------------------------------------ the specification

\* Lines 17-22: the fields as __init__ sets them before it calls
\* _calculate_distances.
Init ==
    /\ graph \in SmallGraphs \cup {SampleGraph}
    /\ start_node \in SmallNodes
    /\ distances = EmptyDict
    /\ parents_map = EmptyDict
    /\ priority_queue = EmptyBag
    /\ current_distance = 0
    /\ current_node = start_node
    /\ todo = {}
    /\ expanded = {}
    /\ end_node = start_node
    /\ walk_node = start_node
    /\ path = <<>>
    /\ exc = "none"
    /\ errors = EmptyDict
    /\ pc = "calc"

Next == Construct \/ Query

Spec == Init /\ [][Next]_vars

\* The interpreter runs the construction to its end: a step of it that can be
\* taken is taken.
FairSpec == Spec /\ WF_vars(Construct)

\* ------------------------------------------------------------ the claims

\* The keys of the graph.
Keys == DOMAIN graph

\* The start node is a key and every neighbour is a key.
WellFormed ==
    /\ start_node \in Keys
    /\ \A u \in Keys : DOMAIN graph[u] \subseteq Keys

\* The smallest element of a non-empty set of distances.
MinOf(S) == CHOOSE a \in S : \A b \in S : ~Less(b, a)

\* WalkWeight(k)[n]: the least total weight of a directed walk from the start
\* node to n that has at most k edges, Infinity when there is none.  With
\* non-negative weights a walk of more edges than there are keys is never
\* lighter than one it contains, so WalkWeight(Cardinality(Keys)) is the
\* minimum over all directed paths.
RECURSIVE WalkWeight(_)
WalkWeight(k) ==
    IF k = 0
    THEN [n \in Keys |-> IF n = start_node THEN 0 ELSE Infinity]
    ELSE LET prev == WalkWeight(k - 1) IN
         [n \in Keys |->
            MinOf({prev[n]} \cup
                  {prev[u] + graph[u][n] :
                     u \in {x \in Keys : n \in DOMAIN graph[x]
                                         /\ prev[x] # Infinity}})]

\* C1: on a graph whose neighbours are all keys and whose weights are
\* non-negative, with a start node that is a key, when construction has
\* finished every key reachable from the start node has as its distance the
\* minimum total weight over the directed paths to it, and every key that is
\* not reachable has distance infinity and no entry in parents_map.
C1_ShortestDistances ==
    (pc = "done" /\ WellFormed) =>
        LET best == WalkWeight(Cardinality(Keys)) IN
        \A n \in Keys :
            /\ distances[n] = best[n]
            /\ best[n] = Infinity => n \notin DOMAIN parents_map

\* A finished construction where a two-edge path beats the direct edge.
C1_Witness ==
    /\ pc = "done"
    /\ WellFormed
    /\ \E n \in DOMAIN graph[start_node] :
          n # start_node /\ distances[n] < graph[start_node][n]

\* The distances the sample prints.
SampleDistances ==
    [n \in {"A", "B", "C", "D", "E", "F"} |->
        CASE n = "A" -> 0 [] n = "B" -> 4 [] n = "C" -> 3
          [] n = "D" -> 2 [] n = "E" -> 5 [] n = "F" -> 6]

\* C2: on the sample graph with start node A, construction yields the
\* distances A:0, B:4, C:3, D:2, E:5, F:6, and get_shortest_path('E') returns
\* [A, D, C, E].
C2_Sample ==
    (graph = SampleGraph /\ start_node = "A") =>
        /\ pc = "done" => distances = SampleDistances
        /\ (pc \in {"returned", "query_raised"} /\ end_node = "E") =>
              (pc = "returned" /\ path = <<"A", "D", "C", "E">>)

\* get_shortest_path('E') has returned on the sample graph from A.
C2_Witness ==
    /\ graph = SampleGraph
    /\ start_node = "A"
    /\ pc = "returned"
    /\ end_node = "E"

\* C3: for a destination that is the start node or has a finite distance,
\* get_shortest_path returns, and the sequence it returns starts with the
\* start node, ends with the destination, and every two consecutive elements
\* are an edge of the graph.
C3_PathIsInGraph ==
    (/\ pc \in {"returned", "query_raised"}
     /\ end_node \in DOMAIN distances
     /\ distances[end_node] # Infinity) =>
        /\ pc = "returned"
        /\ path[1] = start_node
        /\ path[Len(path)] = end_node
        /\ \A i \in 1..(Len(path) - 1) :
              /\ path[i] \in Keys
              /\ path[i + 1] \in DOMAIN graph[path[i]]

\* A returned path of three nodes or more.
C3_Witness ==
    /\ pc = "returned"
    /\ Len(path) >= 3
    /\ path[1] # path[Len(path)]

\* The sum of the edge weights along the parents_map chain from n back to the
\* start node, followed for at most k steps; Infinity when the chain does not
\* reach the start node in k steps, leaves parents_map, or uses a pair that is
\* no edge of the graph.
RECURSIVE ChainWeight(_, _)
ChainWeight(n, k) ==
    IF n = start_node THEN 0
    ELSE IF k = 0 \/ n \notin DOMAIN parents_map THEN Infinity
    ELSE LET p == parents_map[n] IN
         IF p \notin Keys \/ n \notin DOMAIN graph[p] THEN Infinity
         ELSE LET rest == ChainWeight(p, k - 1) IN
              IF rest = Infinity THEN Infinity ELSE rest + graph[p][n]

\* C4: after construction, from every node with a finite distance the
\* parents_map chain reaches the start node (in no step for the start node
\* itself, in fewer steps than there are nodes otherwise), and the edge
\* weights along it sum to the node's distance.
C4_ChainSumsToDistance ==
    pc = "done" =>
        \A n \in DOMAIN distances :
            distances[n] # Infinity =>
                ChainWeight(n, Cardinality(DOMAIN distances) - 1) = distances[n]

\* A finished construction with a chain of two links and a positive distance.
C4_Witness ==
    /\ pc = "done"
    /\ \E n \in DOMAIN parents_map :
          /\ parents_map[n] # start_node
          /\ parents_map[n] # n
          /\ distances[n] > 0

\* The error the specification names for a destination that is a key but has
\* no path from the start node; nothing in the source raises it.
UnreachableNodeError == "UnreachableNodeError"

\* The error the specification names for an identifier that is no key; the
\* source's failed dict lookup, KeyError, is its equivalent.
MissingNodeError == "KeyError"

\* C5: for a destination that is a key but not reachable from the start node,
\* get_shortest_path ends with UnreachableNodeError (it does not return a
\* path).
C5_UnreachableRaises ==
    (/\ pc \in {"returned", "query_raised"}
     /\ end_node \in Keys
     /\ distances[end_node] = Infinity) =>
        (pc = "query_raised" /\ exc = UnreachableNodeError)

\* C6: a neighbour of a reachable node that is no key does not make the
\* construction fail.
C6_DanglingNeighbourIsTerminal ==
    start_node \in Keys => pc # "raised"

\* C7: with a start node that is no key, the construction call ends with
\* MissingNodeError and no engine is ever returned.
C7_MissingSourceRaises ==
    (start_node \notin Keys) =>
        /\ <>(pc = "raised" /\ exc = MissingNodeError)
        /\ [](pc \in {"calc", "loop", "for", "raised"})

\* The construction call has raised for a start node that is no key.
C7_Witness ==
    /\ start_node \notin Keys
    /\ pc = "raised"
    /\ exc = "KeyError"

\* C8: get_shortest_path for a destination that is no key ends with
\* MissingNodeError, and that outcome differs from the outcome of a call for
\* a key that is not reachable.
C8_MissingDistinctFromUnreachable ==
    /\ (pc \in {"returned", "query_raised"} /\ end_node \notin Keys) =>
          (pc = "query_raised" /\ exc = MissingNodeError)
    /\ \A m \in DOMAIN errors : \A u \in DOMAIN errors :
          (m \notin Keys /\ u \in Keys) => errors[m] # errors[u]

C10_SettledIsFinal ==
    [][\A u \in expanded :
          /\ distances'[u] = distances[u]
          /\ (u \in DOMAIN parents_map') = (u \in DOMAIN parents_map)
          /\ u \in DOMAIN parents_map => parents_map'[u] = parents_map[u]
          /\ ~(pc = "loop" /\ pc' = "for" /\ current_node' = u)]_vars

\* A later entry for a node already popped with its current distance has just
\* been discarded as stale.
C10_Witness ==
    /\ pc = "loop"
    /\ current_node \in expanded
    /\ Less(distances[current_node], current_distance)

====
